---- MODULE Spec2Model ----
(***************************************************************************)
(* Authentication / lockout / session module of the multi-domain dashboard *)
(* (week7 file-backed iteration, src/week7/auth.py).                       *)
(*                                                                         *)
(* Text is modelled as sequences of tokens.  A token is a TLA+ string: a   *)
(* single character of a username or password, the delimiter ",", one      *)
(* bcrypt hash (which never contains "," or whitespace) or one role word.  *)
(* A line of users.txt is the token sequence that the f-string of          *)
(* register() writes; it is read back by strip() and split(",") exactly as *)
(* read_lines() and the callers do.                                        *)
(***************************************************************************)
EXTENDS Integers, Sequences, FiniteSets, TLC

VARIABLES
    user_file,      \* users.txt: sequence of lines, each a sequence of tokens
    attempt_file,   \* failed_attempts.txt as the dict load_attempts() builds
    sess_file,      \* sessions.txt: sequence of <<user, token, timestamp>>
    now,            \* time.time(), in whole seconds
    ret,            \* the last call and what it returned or printed (a
                    \* registration the menu refused records only why)
    history,        \* per username, its last three logins that were not
                    \* rejected as locked: <<"bad" or "ok", time>>
    proc,           \* concurrent register() calls: position and locals
    issued,         \* the token the last session issue returned, "" if none
    users_table,    \* week8/10/11: rows <<username, password_hash, role>>
                    \* of the users table, in insertion order
    session_state,  \* week11 Home: the four keys of st.session_state
    ai              \* week11 AIAssistant: _domain, _system_prompt, _history

\* the variables of the table-backed iterations
table_vars == <<users_table, session_state, ai>>

vars == <<user_file, attempt_file, sess_file, now, ret, history, proc,
          issued, users_table, session_state, ai>>

(***************************************************************************)
(* Program constants                                                       *)
(***************************************************************************)
LOCK_TIME == 300
MAX_TRIES == 3

(***************************************************************************)
(* Bounds of the model                                                     *)
(***************************************************************************)
MaxUsers == 2       \* lines in users.txt
MaxSessions == 1    \* lines in sessions.txt

(***************************************************************************)
(* Characters                                                              *)
(***************************************************************************)
Upper == {"A", "B", "C", "D", "E", "F", "G", "H", "I", "J", "K", "L", "M",
          "N", "O", "P", "Q", "R", "S", "T", "U", "V", "W", "X", "Y", "Z"}
Lower == {"a", "b", "c", "d", "e", "f", "g", "h", "i", "j", "k", "l", "m",
          "n", "o", "p", "q", "r", "s", "t", "u", "v", "w", "x", "y", "z"}
Digit == {"0", "1", "2", "3", "4", "5", "6", "7", "8", "9"}
Special == {"!", "@", "#", "$", "%", "^", "&", "*", "(", ")", ",", ".", "?",
            "\"", ":", "{", "}", "|", "<", ">"}
Whitespace == {" ", "\t", "\n"}

(***************************************************************************)
(* Inputs: the strings the callers pass                                    *)
(***************************************************************************)
Alice == <<"a", "b", "c">>
Bob == <<"a", "b", "d">>
AliceComma == <<"a", "b", "c", ",", "x">>
Usernames == {Alice, Bob, AliceComma}

GoodPwd == <<"A", "b", "c", "d", "1", "!">>
OtherPwd == <<"a", "b", "c", "1", "2", "3">>
Passwords == {GoodPwd, OtherPwd}

Roles == {"user", "admin"}
Salts == {"s"}
Tokens == {"t1", "t2"}

(***************************************************************************)
(* str.strip() and str.split(",")                                          *)
(***************************************************************************)
RECURSIVE LStrip(_)
LStrip(s) ==
    IF s # <<>> /\ Head(s) \in Whitespace THEN LStrip(Tail(s)) ELSE s

RECURSIVE RStrip(_)
RStrip(s) ==
    IF s # <<>> /\ s[Len(s)] \in Whitespace
    THEN RStrip(SubSeq(s, 1, Len(s) - 1))
    ELSE s

Strip(s) == RStrip(LStrip(s))

\* s.split(","): the fields between the delimiters; never empty
RECURSIVE Split(_)
Split(s) ==
    IF \A i \in 1..Len(s) : s[i] # ","
    THEN <<s>>
    ELSE LET k == CHOOSE i \in 1..Len(s) :
                      s[i] = "," /\ \A j \in 1..(i - 1) : s[j] # ","
         IN <<SubSeq(s, 1, k - 1)>> \o Split(SubSeq(s, k + 1, Len(s)))

\* read_lines(path): every line stripped
read_lines(file) == [i \in 1..Len(file) |-> Strip(file[i])]

(***************************************************************************)
(* bcrypt, as a collision-free salted function of the password             *)
(***************************************************************************)
PwdList == <<GoodPwd, OtherPwd>>
PwdId(p) == CHOOSE i \in 1..Len(PwdList) : PwdList[i] = p

\* bcrypt.hashpw(password, salt): one token holding the salt and the digest
hashpw(pwd, salt) == "$" \o salt \o "$" \o ToString(PwdId(pwd))

HashTokens == {hashpw(p, s) : p \in Passwords, s \in Salts}

\* a field of a line is a bcrypt hash iff it is exactly one hash token
WellFormedHash(field) == Len(field) = 1 /\ field[1] \in HashTokens

\* the salt embedded in a hash
SaltOf(h) == CHOOSE s \in Salts : \E p \in Passwords : hashpw(p, s) = h

\* check_hash(password, hashed) for a well-formed hash: re-hash with the
\* embedded salt and compare
check_hash(pwd, field) == hashpw(pwd, SaltOf(field[1])) = field[1]

(***************************************************************************)
(* Validator                                                               *)
(***************************************************************************)
WordChars == Upper \cup Lower \cup Digit \cup {"_"}

HasAny(s, class) == \E i \in 1..Len(s) : s[i] \in class

\* re.match(r"^[A-Za-z0-9_]+$", s): one or more word characters up to the
\* end of the string, where "$" also matches just before a final newline
MatchesWord(s) ==
    LET AllWord(t) == t # <<>> /\ \A i \in 1..Len(t) : t[i] \in WordChars
    IN \/ AllWord(s)
       \/ /\ s # <<>>
          /\ s[Len(s)] = "\n"
          /\ AllWord(SubSeq(s, 1, Len(s) - 1))

\* username_ok(user): <<ok, msg>>
username_ok(user) ==
    IF ~(3 <= Len(user) /\ Len(user) <= 20) THEN <<FALSE, "length">>
    ELSE IF HasAny(user, {" "}) THEN <<FALSE, "spaces">>
    ELSE IF ~MatchesWord(user) THEN <<FALSE, "charset">>
    ELSE <<TRUE, "">>

password_okLowerFirst(pwd) ==
    IF ~(6 <= Len(pwd) /\ Len(pwd) <= 50) THEN <<FALSE, "length">>
    ELSE IF ~HasAny(pwd, Lower) THEN <<FALSE, "lowercase">>
    ELSE IF ~HasAny(pwd, Upper) THEN <<FALSE, "uppercase">>
    ELSE IF ~HasAny(pwd, Digit) THEN <<FALSE, "number">>
    ELSE IF ~HasAny(pwd, Special) THEN <<FALSE, "special">>
    ELSE <<TRUE, "">>

\* password_ok(pwd): <<ok, msg>>
password_ok(pwd) ==
    IF ~(6 <= Len(pwd) /\ Len(pwd) <= 50) THEN <<FALSE, "length">>
    ELSE IF ~HasAny(pwd, Upper) THEN <<FALSE, "uppercase">>
    ELSE IF ~HasAny(pwd, Lower) THEN <<FALSE, "lowercase">>
    ELSE IF ~HasAny(pwd, Digit) THEN <<FALSE, "number">>
    ELSE IF ~HasAny(pwd, Special) THEN <<FALSE, "special">>
    ELSE <<TRUE, "">>

(***************************************************************************)
(* Credential store: users.txt                                             *)
(***************************************************************************)
\* the line register() writes: f"{username},{hashed},{role}"
UserLine(username, hashed, role) ==
    username \o <<",">> \o <<hashed>> \o <<",">> \o <<role>>

\* line.split(",")[0] of every stored line, in file order
SavedUsers(file) ==
    [i \in 1..Len(file) |-> Split(read_lines(file)[i])[1]]

\* the loop of register(): some stored line's first field equals username
AlreadySaved(file, username) ==
    \E i \in 1..Len(file) : Split(Strip(file[i]))[1] = username

(***************************************************************************)
(* Lockout tracker: the dict of load_attempts()                            *)
(*                                                                         *)
(* failed_attempts.txt holds one line "user,count,timestamp" per key of    *)
(* the dict.  Every key is the first field of a stripped users.txt line,   *)
(* so it holds no "," and no outer whitespace, and int/float print and     *)
(* parse back to the same numbers: store_attempts followed by              *)
(* load_attempts gives the same dict, which is what attempt_file holds.    *)
(***************************************************************************)
\* attempts[username] = (cnt, ts)
SetAttempt(attempts, username, cnt, ts) ==
    [x \in DOMAIN attempts \cup {username} |->
        IF x = username THEN <<cnt, ts>> ELSE attempts[x]]

\* attempts.get(username, (0, 0))[0]
TriesOf(attempts, username) ==
    IF username \in DOMAIN attempts THEN attempts[username][1] ELSE 0

IsLockedForever(attempts, username, t) ==
    /\ username \in DOMAIN attempts
    /\ attempts[username][1] >= MAX_TRIES

IsLockedLate(attempts, username, t) ==
    /\ username \in DOMAIN attempts
    /\ attempts[username][1] > MAX_TRIES
    /\ (t - attempts[username][2]) < LOCK_TIME

\* user_login lines 68-70: the account is locked at time t
IsLocked(attempts, username, t) ==
    /\ username \in DOMAIN attempts
    /\ attempts[username][1] >= MAX_TRIES
    /\ (t - attempts[username][2]) < LOCK_TIME

LockedPathTouch(attempts, username, t) ==
    SetAttempt(attempts, username, attempts[username][1], t)

\* user_login lines 71-73: the locked path prints and returns; the file is
\* not written
LockedPath(attempts, username, t) == attempts

AfterExpiryCreates(attempts, username, t) ==
    IF username \notin DOMAIN attempts
          \/ t - attempts[username][2] >= LOCK_TIME
    THEN SetAttempt(attempts, username, 0, 0)
    ELSE attempts

AfterExpiryLate(attempts, username, t) ==
    IF username \in DOMAIN attempts /\ t - attempts[username][2] > LOCK_TIME
    THEN SetAttempt(attempts, username, 0, 0)
    ELSE attempts

\* user_login lines 74-76: the dict after the window-expiry reset
AfterExpiry(attempts, username, t) ==
    IF username \in DOMAIN attempts /\ t - attempts[username][2] >= LOCK_TIME
    THEN SetAttempt(attempts, username, 0, 0)
    ELSE attempts

OnSuccessKeep(attempts, username) == attempts

\* user_login lines 82-83: a matching password clears the record
OnSuccess(attempts, username) == SetAttempt(attempts, username, 0, 0)

OnFailureTwice(attempts, username, t) ==
    SetAttempt(attempts, username, TriesOf(attempts, username) + 2, t)

\* user_login lines 85-87: a wrong password counts one more failure, now
OnFailure(attempts, username, t) ==
    SetAttempt(attempts, username, TriesOf(attempts, username) + 1, t)

NotFoundCounts(attempts, username, t) == OnFailure(attempts, username, t)

\* user_login line 91: no line of users.txt matched; nothing more is written
NotFound(attempts, username, t) == attempts

\* user_login lines 78-80: the first line at which the scan of users.txt
\* stops: its unpacking fails (fewer than two fields) or its user matches;
\* 0 when the loop runs to the end
ScanStop(lines, username) ==
    LET stops == {i \in 1..Len(lines) :
                     \/ Len(Split(lines[i])) < 2
                     \/ Split(lines[i])[1] = username}
    IN IF stops = {} THEN 0
       ELSE CHOOSE i \in stops : \A j \in stops : i <= j

\* user_login(username, pwd) at time t: what it returns (val), by which
\* path (why), and the dict it leaves in failed_attempts.txt
user_login(file, attempts, t, username, pwd) ==
    IF IsLocked(attempts, username, t)
    THEN [val |-> "False", why |-> "locked",
          attempts |-> LockedPath(attempts, username, t)]
    ELSE
      LET a1 == AfterExpiry(attempts, username, t)
          lines == read_lines(file)
          k == ScanStop(lines, username)
          fields == Split(lines[k])
      IN IF k = 0
         THEN [val |-> "False", why |-> "not_found",
               attempts |-> NotFound(a1, username, t)]
         ELSE IF Len(fields) < 2 \/ ~WellFormedHash(fields[2])
         THEN [val |-> "raise", why |-> "ValueError", attempts |-> a1]
         ELSE IF check_hash(pwd, fields[2])
         THEN [val |-> "True", why |-> "ok",
               attempts |-> OnSuccess(a1, username)]
         ELSE [val |-> "False", why |-> "bad_password",
               attempts |-> OnFailure(a1, username, t)]

(***************************************************************************)
(* Operations                                                              *)
(***************************************************************************)
NoCall == [op |-> "none", user |-> <<>>, pwd |-> <<>>, role |-> "",
           val |-> "", why |-> ""]

Idle == [pc |-> "idle", user |-> <<>>, pwd |-> <<>>, role |-> "", val |-> ""]

Procs == {1, 2}

\* AIAssistant.DOMAIN_PROMPTS: the system prompt of each known domain
KnownDomains == {"Cybersecurity", "Data Science", "IT Operations"}

DOMAIN_PROMPTS ==
    [d \in KnownDomains |->
        IF d = "Cybersecurity"
        THEN "You are a cybersecurity expert assistant."
        ELSE IF d = "Data Science"
        THEN "You are a data science expert assistant."
        ELSE "You are an IT operations expert assistant."]

\* an entry of _history: {"role": role, "content": content}
Message(role, content) == [role |-> role, content |-> content]

\* AIAssistant.__init__(api_key, domain): DOMAIN_PROMPTS.get(domain, ...)
\* and a history that holds the system message
NewAssistant(domain) ==
    LET prompt == IF domain \in KnownDomains THEN DOMAIN_PROMPTS[domain]
                  ELSE "You are a helpful assistant."
    IN [domain |-> domain, system_prompt |-> prompt,
        history |-> <<Message("system", prompt)>>]

\* Home.py lines 51-58 and 139-142: the session state of a visitor who is
\* not logged in; <<>> and "None" stand for Python's None
LoggedOut ==
    [logged_in |-> FALSE, username |-> <<>>, role |-> "None",
     current_user |-> <<>>]

\* Home.py lines 167-170: the session state after login_user returned the
\* User built from this row of the users table
LoggedInAs(row) ==
    [logged_in |-> TRUE, username |-> row[1], role |-> row[3],
     current_user |-> row]

\* the state with no file written yet and no call made
Init ==
    /\ user_file = <<>>
    /\ attempt_file = <<>>
    /\ sess_file = <<>>
    /\ now = LOCK_TIME
    /\ ret = NoCall
    /\ history = [u \in Usernames |-> <<>>]
    /\ proc = [p \in Procs |-> Idle]
    /\ issued = ""
    /\ users_table = <<>>
    /\ session_state = LoggedOut
    /\ ai = NewAssistant("Cybersecurity")

\* register(username, pwd, role) with the salt bcrypt.gensalt() draws:
\* what it returns and the users.txt it leaves
register(file, username, pwd, role, salt) ==
    IF AlreadySaved(file, username)
    THEN [val |-> "False", file |-> file]
    ELSE [val |-> "True",
          file |-> Append(file, UserLine(username, hashpw(pwd, salt), role))]

\* register(username, pwd, role), called directly
Register(username, pwd, role) ==
    /\ Len(user_file) < MaxUsers
    /\ \E salt \in Salts :
       \E r \in {register(user_file, username, pwd, role, salt)} :
          /\ user_file' = r.file
          /\ ret' = [op |-> "register", user |-> username, pwd |-> pwd,
                     role |-> role, val |-> r.val,
                     why |-> IF r.val = "True" THEN "ok" ELSE "duplicate"]
    /\ UNCHANGED <<attempt_file, sess_file, now, history, proc>>
    /\ UNCHANGED <<issued, table_vars>>

\* str.lower() of the role words typed at the prompt
LowerWord(w) == IF w = "Admin" THEN "admin" ELSE w

\* main() lines 160-162: the role that is passed on
MenuRole(typed) ==
    IF LowerWord(typed) \in {"user", "admin", "analyst"}
    THEN LowerWord(typed)
    ELSE "user"

\* main() lines 142-158: the first check that stops the registration, ""
\* when none does
MenuError(username, pwd, confirm) ==
    IF ~username_ok(username)[1] THEN username_ok(username)[2]
    ELSE IF ~password_ok(pwd)[1] THEN password_ok(pwd)[2]
    ELSE IF pwd # confirm THEN "mismatch"
    ELSE ""

\* main(), choice "1": validate, confirm, pick the role, register, report
MenuRegister(u, p, c, typed) ==
    \E err \in {MenuError(Strip(u), Strip(p), Strip(c))} :
       /\ IF err # ""
          THEN /\ ret' = [op |-> "menu_register", user |-> <<>>,
                          pwd |-> <<>>, role |-> "", val |-> "",
                          why |-> err]
               /\ UNCHANGED user_file
          ELSE \E salt \in Salts :
               \E r \in {register(user_file, Strip(u), Strip(p),
                                  MenuRole(typed), salt)} :
                  /\ user_file' = r.file
                  /\ ret' = [op |-> "menu_register", user |-> Strip(u),
                             pwd |-> Strip(p), role |-> MenuRole(typed),
                             val |-> r.val, why |-> "success"]
       /\ UNCHANGED <<attempt_file, sess_file, now, history, proc>>
       /\ UNCHANGED <<issued, table_vars>>

new_sessionFront(file, user, token, t) == <<<<user, token, t>>>> \o file

\* new_session(user): append (user, token, timestamp)
new_session(file, user, token, t) == Append(file, <<user, token, t>>)

\* the last three entries of a sequence
Last3(s) == IF Len(s) <= 3 THEN s ELSE SubSeq(s, Len(s) - 2, Len(s))

\* the history after a login at time t that ended by path why
Observe(h, username, why, t) ==
    IF username \notin DOMAIN h THEN h
    ELSE IF why = "bad_password"
    THEN [h EXCEPT ![username] = Last3(Append(@, <<"bad", t>>))]
    ELSE IF why = "ok"
    THEN [h EXCEPT ![username] = Last3(Append(@, <<"ok", t>>))]
    ELSE h

LoginSucceededAlways(val) == val # "raise"

\* main() line 172: `if user_login(u, p):`
LoginSucceeded(val) == val = "True"

\* main(), choice "2": user_login, then new_session on success
Login(u, p, token) ==
    \E r \in {user_login(user_file, attempt_file, now, Strip(u), Strip(p))} :
       /\ LoginSucceeded(r.val) => Len(sess_file) < MaxSessions
       /\ attempt_file' = r.attempts
       /\ sess_file' = IF LoginSucceeded(r.val)
                       THEN new_session(sess_file, Strip(u), token, now)
                       ELSE sess_file
       /\ issued' = IF LoginSucceeded(r.val) THEN token ELSE issued
       /\ ret' = [op |-> "login", user |-> Strip(u), pwd |-> Strip(p),
                  role |-> "", val |-> r.val, why |-> r.why]
       /\ history' = Observe(history, Strip(u), r.why, now)
       /\ UNCHANGED <<user_file, now, proc, table_vars>>

\* the instants at which calls are made: the start, and LOCK_TIME - 1 and
\* LOCK_TIME seconds after it
Clock == {LOCK_TIME, 2 * LOCK_TIME - 1, 2 * LOCK_TIME}

\* the clock advances to a later instant
Tick(t) ==
    /\ t > now
    /\ now' = t
    /\ UNCHANGED <<user_file, attempt_file, sess_file, ret, history, proc>>
    /\ UNCHANGED <<issued, table_vars>>

\* what is typed at the registration prompts: username, password,
\* confirmation
MenuInputs == {<<Alice, GoodPwd, GoodPwd>>, <<Bob, GoodPwd, GoodPwd>>,
               <<AliceComma, GoodPwd, GoodPwd>>,
               <<Alice, OtherPwd, OtherPwd>>, <<Bob, GoodPwd, OtherPwd>>}

\* the program as main() runs it: registrations and logins typed at the
\* menu, at the instants of Clock
Next ==
    \/ \E in \in MenuInputs : MenuRegister(in[1], in[2], in[3], "user")
    \/ \E u \in {Alice, Bob}, p \in Passwords, k \in {"t1"} : Login(u, p, k)
    \/ \E t \in Clock : Tick(t)

Spec == Init /\ [][Next]_vars

\* register() and the login called directly, with any username
NextApi ==
    \/ \E u \in Usernames, p \in Passwords, r \in Roles : Register(u, p, r)
    \/ \E u \in Usernames, p \in Passwords, k \in {"t1"} : Login(u, p, k)

SpecApi == Init /\ [][NextApi]_vars

(***************************************************************************)
(* Two register() calls running at once: each reads users.txt (lines       *)
(* 54-58), then hashes and appends (lines 59-62).                          *)
(***************************************************************************)
\* register lines 54-58: read the file and look for the username
RegisterCheck(p, username, pwd, role) ==
    /\ proc[p].pc = "idle"
    /\ proc' = [proc EXCEPT ![p] =
           IF AlreadySaved(user_file, username)
           THEN [pc |-> "done", user |-> username, pwd |-> pwd,
                 role |-> role, val |-> "False"]
           ELSE [pc |-> "append", user |-> username, pwd |-> pwd,
                 role |-> role, val |-> ""]]
    /\ UNCHANGED <<user_file, attempt_file, sess_file, now, ret, history>>
    /\ UNCHANGED <<issued, table_vars>>

\* register lines 59-62: hash, append the line, return True
RegisterAppend(p) ==
    /\ proc[p].pc = "append"
    /\ \E salt \in Salts :
          user_file' = Append(user_file,
              UserLine(proc[p].user, hashpw(proc[p].pwd, salt), proc[p].role))
    /\ proc' = [proc EXCEPT ![p].pc = "done", ![p].val = "True"]
    /\ UNCHANGED <<attempt_file, sess_file, now, ret, history>>
    /\ UNCHANGED <<issued, table_vars>>

NextRace ==
    \/ \E p \in Procs, u \in {Alice, Bob}, w \in Passwords, r \in Roles :
          RegisterCheck(p, u, w, r)
    \/ \E p \in Procs : RegisterAppend(p)

SpecRace == Init /\ [][NextRace]_vars

(***************************************************************************)
(* Session issue called directly: week7 new_session and week10             *)
(* create_session, next to the menu's registration and login.              *)
(***************************************************************************)
MaxIssued == 2      \* lines in sessions.txt when new_session is called
                    \* directly

\* new_session(user), called directly: appends the record and returns the
\* token
NewSession(user, token) ==
    /\ Len(sess_file) < MaxIssued
    /\ sess_file' = new_session(sess_file, user, token, now)
    /\ issued' = token
    /\ ret' = [op |-> "new_session", user |-> user, pwd |-> <<>>,
               role |-> "", val |-> token, why |-> ""]
    /\ UNCHANGED <<user_file, attempt_file, now, history, proc, table_vars>>

\* week10 create_session(username): draws a token and returns it; nothing
\* is written
CreateSession(user, token) ==
    /\ issued' = token
    /\ ret' = [op |-> "create_session", user |-> user, pwd |-> <<>>,
               role |-> "", val |-> token, why |-> ""]
    /\ UNCHANGED <<user_file, attempt_file, sess_file, now, history, proc,
                   table_vars>>

NextSession ==
    \/ MenuRegister(Alice, GoodPwd, GoodPwd, "user")
    \/ \E p \in Passwords, k \in Tokens : Login(Alice, p, k)
    \/ \E u \in {Alice, Bob}, k \in Tokens : NewSession(u, k)
    \/ \E u \in {Alice, Bob}, k \in Tokens : CreateSession(u, k)
    \/ \E t \in Clock : Tick(t)

SpecSession == Init /\ [][NextSession]_vars

(***************************************************************************)
(* The validators and the strength meter as functions of their argument:   *)
(* week7 username_ok, password_ok, strength and week10/week11              *)
(* validate_username, validate_password, check_password_strength.          *)
(***************************************************************************)
\* week10/11 validate_username(username): <<ok, msg>>
validate_username(username) ==
    IF username = <<>> THEN <<FALSE, "empty">>
    ELSE IF Len(username) < 3 \/ Len(username) > 20
    THEN <<FALSE, "length">>
    ELSE IF ~MatchesWord(username) THEN <<FALSE, "charset">>
    ELSE <<TRUE, "">>

\* week10/11 validate_password(password): <<ok, msg>>
validate_password(pwd) ==
    IF Len(pwd) < 6 THEN <<FALSE, "length">>
    ELSE IF ~HasAny(pwd, Upper) THEN <<FALSE, "uppercase">>
    ELSE IF ~HasAny(pwd, Lower) THEN <<FALSE, "lowercase">>
    ELSE IF ~HasAny(pwd, Digit) THEN <<FALSE, "number">>
    ELSE IF ~HasAny(pwd, Special) THEN <<FALSE, "special">>
    ELSE <<TRUE, "">>

\* int(b) of a Python bool
BoolInt(b) == IF b THEN 1 ELSE 0

ScoreLen6(pwd) ==
    BoolInt(Len(pwd) >= 6) + BoolInt(HasAny(pwd, Upper))
    + BoolInt(HasAny(pwd, Lower)) + BoolInt(HasAny(pwd, Digit))
    + BoolInt(HasAny(pwd, Special))

\* score = sum([...]): the number of criteria the password meets
Score(pwd) ==
    BoolInt(Len(pwd) >= 8) + BoolInt(HasAny(pwd, Upper))
    + BoolInt(HasAny(pwd, Lower)) + BoolInt(HasAny(pwd, Digit))
    + BoolInt(HasAny(pwd, Special))

StrengthLabels == <<"Weak", "Medium", "Strong">>

RateWeek7Strict(score) ==
    StrengthLabels[(IF score = 5 THEN 2 ELSE IF score > 3 THEN 1 ELSE 0) + 1]

\* week7 strength, line 123: the label picked by the score
RateWeek7(score) ==
    StrengthLabels[(IF score = 5 THEN 2 ELSE IF score >= 3 THEN 1 ELSE 0) + 1]

RateWeek10Early(score) ==
    IF score <= 2 THEN "Weak"
    ELSE IF score <= 3 THEN "Medium"
    ELSE "Strong"

\* week10/11 check_password_strength, lines 103-107
RateWeek10(score) ==
    IF score <= 2 THEN "Weak"
    ELSE IF score <= 4 THEN "Medium"
    ELSE "Strong"

\* week7 strength(pwd)
strength(pwd) == RateWeek7(Score(pwd))

\* week10/11 check_password_strength(pw)
check_password_strength(pwd) == RateWeek10(Score(pwd))

\* n copies of the character c
Repeat(c, n) == [i \in 1..n |-> c]

MaxNameLen == 3     \* length of the enumerated usernames
MaxPwdLen == 8      \* length of the enumerated short passwords

NameChars == {"a", "_", " ", "\n", "-"}

\* every string over NameChars up to MaxNameLen, names of 19 to 21
\* characters, names ending in a newline, and "has space", "valid_123"
NameInputs ==
    UNION {[1..n -> NameChars] : n \in 0..MaxNameLen}
    \cup {Repeat("a", n) : n \in 19..21}
    \cup {Alice \o <<"\n">>, Repeat("a", 19) \o <<"\n">>,
          Repeat("a", 20) \o <<"\n">>,
          <<"h", "a", "s", " ", "s", "p", "a", "c", "e">>,
          <<"v", "a", "l", "i", "d", "_", "1", "2", "3">>}

\* one character of each class a password may hold
ClassChars == <<"A", "b", "1", "!">>

\* the characters of ClassChars picked by S, in order
RECURSIVE Pick(_, _)
Pick(S, i) ==
    IF i > Len(ClassChars) THEN <<>>
    ELSE (IF i \in S THEN <<ClassChars[i]>> ELSE <<>>) \o Pick(S, i + 1)

\* the first n characters of the picked ones followed by filler
Build(S, n) == SubSeq(Pick(S, 1) \o Repeat("-", n), 1, n)

PwdLengths == 0..MaxPwdLen \cup {49, 50, 51}

PwdInputs ==
    {Build(S, n) : S \in SUBSET (1..Len(ClassChars)), n \in PwdLengths}
    \cup {OtherPwd, GoodPwd,
          <<"A", "b", "c", "d", "e", "f", "1", "!">>,
          <<"p", "a", "s", "s", "w", "o", "r", "d">>}

\* "True" / "False" of a Python bool
PyBool(b) == IF b THEN "True" ELSE "False"

UsernameValidators == {"username_ok", "validate_username"}

\* a call of a validator: what was passed and the pair it returned
ValidatorCall(name, arg, result) ==
    /\ ret' = [op |-> name,
               user |-> IF name \in UsernameValidators THEN arg ELSE <<>>,
               pwd |-> IF name \in UsernameValidators THEN <<>> ELSE arg,
               role |-> "", val |-> PyBool(result[1]), why |-> result[2]]
    /\ UNCHANGED <<user_file, attempt_file, sess_file, now, history, proc,
                   issued, table_vars>>

\* a call of a strength meter: the password and the label returned
MeterCall(name, pwd, label) ==
    /\ ret' = [op |-> name, user |-> <<>>, pwd |-> pwd, role |-> "",
               val |-> label, why |-> ""]
    /\ UNCHANGED <<user_file, attempt_file, sess_file, now, history, proc,
                   issued, table_vars>>

CallUsernameOk(name) == ValidatorCall("username_ok", name, username_ok(name))

CallValidateUsername(name) ==
    ValidatorCall("validate_username", name, validate_username(name))

CallPasswordOk(pwd) == ValidatorCall("password_ok", pwd, password_ok(pwd))

CallValidatePassword(pwd) ==
    ValidatorCall("validate_password", pwd, validate_password(pwd))

CallStrength(pwd) == MeterCall("strength", pwd, strength(pwd))

CallCheckPasswordStrength(pwd) ==
    MeterCall("check_password_strength", pwd, check_password_strength(pwd))

NextPure ==
    \/ \E name \in NameInputs : CallUsernameOk(name)
    \/ \E name \in NameInputs : CallValidateUsername(name)
    \/ \E pwd \in PwdInputs : CallPasswordOk(pwd)
    \/ \E pwd \in PwdInputs : CallValidatePassword(pwd)
    \/ \E pwd \in PwdInputs : CallStrength(pwd)
    \/ \E pwd \in PwdInputs : CallCheckPasswordStrength(pwd)

SpecPure == Init /\ [][NextPure]_vars

(***************************************************************************)
(* Table-backed iterations (week8/10/11): the users table, AuthManager and *)
(* the forms of week11 Home.py.                                            *)
(***************************************************************************)
\* the options of the role selectbox, Home.py lines 186-189
FormRoles == {"user", "data_analyst", "admin"}

\* SELECT ... FROM users WHERE username = ?, fetch_one: the index of the
\* first row with this username, 0 when there is none
FetchOne(table, username) ==
    IF \A i \in 1..Len(table) : table[i][1] # username THEN 0
    ELSE CHOOSE i \in 1..Len(table) :
             /\ table[i][1] = username
             /\ \A j \in 1..(i - 1) : table[j][1] # username

\* PasswordHasher.verify_password(plain, hashed): bcrypt.checkpw inside
\* try/except, False when the hash is malformed
verify_password(pwd, hashed) ==
    IF hashed \in HashTokens
    THEN hashpw(pwd, SaltOf(hashed)) = hashed
    ELSE FALSE

\* AuthManager.register_user(username, password, role): what it returns and
\* the table it leaves
register_user(table, username, pwd, role, salt) ==
    IF FetchOne(table, username) # 0
    THEN [val |-> "False", table |-> table]
    ELSE [val |-> "True",
          table |-> Append(table, <<username, hashpw(pwd, salt), role>>)]

login_userCounting(table, username, pwd) ==
    IF FetchOne(table, username) = 0 THEN "None"
    ELSE IF Len(history[username]) < 2
            /\ verify_password(pwd, table[FetchOne(table, username)][2])
    THEN "User"
    ELSE "None"

\* AuthManager.login_user(username, password): "User" when a User object
\* is returned, "None" otherwise
login_user(table, username, pwd) ==
    IF FetchOne(table, username) = 0 THEN "None"
    ELSE IF verify_password(pwd, table[FetchOne(table, username)][2])
    THEN "User"
    ELSE "None"

\* the last four entries of a sequence
Last4(s) == IF Len(s) <= 4 THEN s ELSE SubSeq(s, Len(s) - 3, Len(s))

\* the history after a table-backed login of a username that has a row
ObserveTable(h, table, username, result, t) ==
    IF username \notin DOMAIN h \/ FetchOne(table, username) = 0 THEN h
    ELSE [h EXCEPT ![username] =
             Last4(Append(@, <<IF result = "User" THEN "ok" ELSE "bad", t>>))]

\* Home.py lines 202-226: the register form, submitted
FormRegister(new_user, pw, confirm_pw, role) ==
    /\ ~session_state.logged_in
    /\ Len(users_table) < MaxUsers
    /\ \E err \in {IF ~validate_username(new_user)[1]
                    THEN validate_username(new_user)[2]
                    ELSE IF ~validate_password(pw)[1]
                    THEN validate_password(pw)[2]
                    ELSE IF pw # confirm_pw THEN "mismatch"
                    ELSE ""} :
          IF err # ""
          THEN /\ ret' = [op |-> "form_register", user |-> <<>>,
                          pwd |-> <<>>, role |-> "", val |-> "",
                          why |-> err]
               /\ UNCHANGED users_table
          ELSE \E salt \in Salts :
               \E r \in {register_user(users_table, new_user, pw, role,
                                       salt)} :
                  /\ users_table' = r.table
                  /\ ret' = [op |-> "form_register", user |-> new_user,
                             pwd |-> pw, role |-> role, val |-> r.val,
                             why |-> IF r.val = "True" THEN "created"
                                     ELSE "exists"]
    /\ UNCHANGED <<user_file, attempt_file, sess_file, now, history, proc,
                   issued, session_state, ai>>

\* AuthManager.login_user(username, password), called directly
TableLogin(username, pwd) ==
    \E r \in {login_user(users_table, username, pwd)} :
       /\ ret' = [op |-> "login_user", user |-> username, pwd |-> pwd,
                  role |-> "", val |-> r, why |-> ""]
       /\ history' = ObserveTable(history, users_table, username, r, now)
       /\ UNCHANGED <<user_file, attempt_file, sess_file, now, proc, issued,
                      table_vars>>

\* Home.py lines 157-175: the login form, submitted
FormLogin(username, pwd) ==
    /\ ~session_state.logged_in
    /\ \E r \in {login_user(users_table, username, pwd)} :
          /\ ret' = [op |-> "form_login", user |-> username, pwd |-> pwd,
                     role |-> "", val |-> r, why |-> ""]
          /\ session_state' =
                IF r = "User"
                THEN LoggedInAs(users_table[FetchOne(users_table, username)])
                ELSE session_state
          /\ history' = ObserveTable(history, users_table, username, r, now)
    /\ UNCHANGED <<user_file, attempt_file, sess_file, now, proc, issued,
                   users_table, ai>>

\* Home.py lines 138-143: the Logout button of the logged-in view
Logout ==
    /\ session_state.logged_in
    /\ session_state' = LoggedOut
    /\ ret' = [op |-> "logout", user |-> session_state.username, pwd |-> <<>>,
               role |-> "", val |-> "", why |-> ""]
    /\ UNCHANGED <<user_file, attempt_file, sess_file, now, history, proc,
                   issued, users_table, ai>>

\* what is typed into the register form: username, password, confirmation
FormInputs == {<<Alice, GoodPwd, GoodPwd>>, <<Bob, GoodPwd, GoodPwd>>,
               <<AliceComma, GoodPwd, GoodPwd>>,
               <<Alice, OtherPwd, OtherPwd>>, <<Bob, GoodPwd, OtherPwd>>}

NextTable ==
    \/ \E in \in FormInputs, r \in FormRoles :
          FormRegister(in[1], in[2], in[3], r)
    \/ \E u \in {Alice, Bob}, p \in Passwords : TableLogin(u, p)
    \/ \E p \in Passwords : FormLogin(Alice, p)
    \/ Logout

SpecTable == Init /\ [][NextTable]_vars

(***************************************************************************)
(* user_login calls running at once.  Each call reads                      *)
(* failed_attempts.txt into its own dict (line 65), tests the lock and     *)
(* stores the expiry reset from that dict (lines 68-76), then scans        *)
(* users.txt and stores the outcome from that dict (lines 78-89).          *)
(***************************************************************************)
\* a call that has returned: its locals are gone
Returned(val) ==
    [pc |-> "done", user |-> <<>>, pwd |-> <<>>, role |-> "",
     val |-> val, snap |-> <<>>, at |-> 0]

\* user_login lines 65-66: load_attempts() and time.time()
LoginLoad(p, username, pwd) ==
    /\ proc[p].pc \in {"idle", "done"}
    /\ proc' = [proc EXCEPT ![p] =
           [pc |-> "gate", user |-> username, pwd |-> pwd, role |-> "",
            val |-> "", snap |-> attempt_file, at |-> now]]
    /\ UNCHANGED <<user_file, attempt_file, sess_file, now, ret, history,
                   issued, table_vars>>

\* user_login line 74: the branch that resets and stores is taken
ExpiryBranch(attempts, username, t) ==
    /\ username \in DOMAIN attempts
    /\ t - attempts[username][2] >= LOCK_TIME

\* user_login lines 68-76: return False when locked; otherwise reset an
\* expired record and write the whole dict back
LoginGate(p) ==
    /\ proc[p].pc = "gate"
    /\ IF IsLocked(proc[p].snap, proc[p].user, proc[p].at)
       THEN /\ proc' = [proc EXCEPT ![p] = Returned("False")]
            /\ attempt_file' = LockedPath(attempt_file, proc[p].user,
                                          proc[p].at)
       ELSE /\ proc' = [proc EXCEPT ![p].pc = "verify",
                           ![p].snap = AfterExpiry(proc[p].snap,
                                                   proc[p].user, proc[p].at)]
            /\ attempt_file' =
                  IF ExpiryBranch(proc[p].snap, proc[p].user, proc[p].at)
                  THEN AfterExpiry(proc[p].snap, proc[p].user, proc[p].at)
                  ELSE attempt_file
    /\ UNCHANGED <<user_file, sess_file, now, ret, history, issued,
                   table_vars>>

\* user_login lines 78-91: scan users.txt, check the password, write the
\* whole dict back with the outcome
LoginVerify(p) ==
    /\ proc[p].pc = "verify"
    /\ \E k \in {ScanStop(read_lines(user_file), proc[p].user)} :
       \E fields \in {IF k = 0 THEN <<>>
                      ELSE Split(read_lines(user_file)[k])} :
          IF k = 0
          THEN /\ proc' = [proc EXCEPT ![p] = Returned("False")]
               /\ UNCHANGED attempt_file
          ELSE IF Len(fields) < 2 \/ ~WellFormedHash(fields[2])
          THEN /\ proc' = [proc EXCEPT ![p] = Returned("raise")]
               /\ UNCHANGED attempt_file
          ELSE IF check_hash(proc[p].pwd, fields[2])
          THEN /\ proc' = [proc EXCEPT ![p] = Returned("True")]
               /\ attempt_file' = OnSuccess(proc[p].snap, proc[p].user)
          ELSE /\ proc' = [proc EXCEPT ![p] = Returned("False")]
               /\ attempt_file' = OnFailure(proc[p].snap, proc[p].user,
                                            proc[p].at)
    /\ UNCHANGED <<user_file, sess_file, now, ret, history, issued,
                   table_vars>>

\* both accounts registered through the menu, no login made yet
InitLoginRace ==
    /\ user_file = register(register(<<>>, Alice, GoodPwd, "user", "s").file,
                            Bob, GoodPwd, "user", "s").file
    /\ attempt_file = <<>>
    /\ sess_file = <<>>
    /\ now = LOCK_TIME
    /\ ret = NoCall
    /\ history = [u \in Usernames |-> <<>>]
    /\ proc = [p \in Procs |-> Idle]
    /\ issued = ""
    /\ users_table = <<>>
    /\ session_state = LoggedOut
    /\ ai = NewAssistant("Cybersecurity")

NextLoginRace ==
    \/ \E p \in Procs, w \in Passwords : LoginLoad(p, Alice, w)
    \/ \E p \in Procs : LoginLoad(p, Bob, OtherPwd)
    \/ \E p \in Procs : LoginGate(p)
    \/ \E p \in Procs : LoginVerify(p)
    \/ \E t \in {2 * LOCK_TIME} : Tick(t)

SpecLoginRace == InitLoginRace /\ [][NextLoginRace]_vars

(***************************************************************************)
(* week11: the pages of the Streamlit application                          *)
(***************************************************************************)
\* the pages that start with `if not st.session_state.get("logged_in")`
GuardedPages == {"1_Cybersecurity", "2_Datascience", "3_IT"}

\* the pages the Home view lists under "Dashboards"
DashboardPages == GuardedPages \cup {"4_AI"}

\* whether the script of the page runs past its st.stop() checks: the
\* logged_in check of the three guarded pages, the OPENAI_API_KEY check of
\* pages/4_AI.py
PageRenders(page, state, has_key) ==
    IF page \in GuardedPages THEN state.logged_in ELSE has_key

\* a visitor opens a page of the application by its URL or from the sidebar
OpenPage(page, has_key) ==
    /\ ret' = [op |-> "open_page", user |-> session_state.username,
               pwd |-> <<>>, role |-> "",
               val |-> IF PageRenders(page, session_state, has_key)
                       THEN "rendered" ELSE "stopped",
               why |-> page]
    /\ UNCHANGED <<user_file, attempt_file, sess_file, now, history, proc,
                   issued, table_vars>>

\* the Home page and the dashboard pages as one visitor uses them
NextHome ==
    \/ \E in \in FormInputs, r \in FormRoles :
          FormRegister(in[1], in[2], in[3], r)
    \/ \E u \in {Alice, Bob}, p \in Passwords : FormLogin(u, p)
    \/ Logout
    \/ \E page \in DashboardPages, has_key \in BOOLEAN :
          OpenPage(page, has_key)

SpecHome == Init /\ [][NextHome]_vars

(***************************************************************************)
(* week11: AIAssistant, the wrapper of the chat API                        *)
(***************************************************************************)
\* send_message is called while _history holds fewer entries than this
MaxHistory == 5

\* the domains passed to __init__ and set_domain; "Finance" is not a key of
\* DOMAIN_PROMPTS
DomainInputs == KnownDomains \cup {"Finance"}

PromptInputs == {"You are a terse assistant."}

MessageInputs == {"hello", "status?"}

\* what the chat API does with a request: a reply, or an exception
ApiOutcomes == {"reply", "raise"}

ClearedSkipsPrompt(a) ==
    [a EXCEPT !.history = <<Message("system", a.history[1].content)>>]

\* clear_history, lines 97-101: only the system message, with the current
\* system prompt
Cleared(a) ==
    [a EXCEPT !.history = <<Message("system", a.system_prompt)>>]

\* set_domain(domain), lines 40-50
set_domain(a, domain) ==
    IF domain \in KnownDomains
    THEN Cleared([a EXCEPT !.domain = domain,
                           !.system_prompt = DOMAIN_PROMPTS[domain]])
    ELSE a

\* set_system_prompt(prompt), lines 56-64
set_system_prompt(a, prompt) == Cleared([a EXCEPT !.system_prompt = prompt])

\* send_message(user_message), lines 70-95: the user message is appended
\* (line 82) before the request (lines 85-89); the reply is appended (line
\* 93) only when the request returned
send_message(a, user_message, outcome) ==
    LET sent == [a EXCEPT !.history = Append(@, Message("user",
                                                         user_message))]
    IN IF outcome = "raise" THEN sent
       ELSE [sent EXCEPT !.history = Append(@, Message("assistant",
                                                        outcome))]

\* what an assistant call leaves in ret: the method, its argument (why) and
\* what it returned or raised (val)
AssistantCall(name, arg, val) ==
    /\ ret' = [op |-> name, user |-> <<>>, pwd |-> <<>>, role |-> "",
               val |-> val, why |-> arg]
    /\ UNCHANGED <<user_file, attempt_file, sess_file, now, history, proc,
                   issued, users_table, session_state>>

\* pages/4_AI.py lines 86-92: AIAssistant(api_key, domain, model)
Construct(domain) ==
    /\ ai' = NewAssistant(domain)
    /\ AssistantCall("__init__", domain, "")

SetDomain(domain) ==
    /\ ai' = set_domain(ai, domain)
    /\ AssistantCall("set_domain", domain, "")

SetSystemPrompt(prompt) ==
    /\ ai' = set_system_prompt(ai, prompt)
    /\ AssistantCall("set_system_prompt", prompt, "")

\* pages/4_AI.py lines 125-142: the chat input; an exception of the request
\* is caught by the page and shown as an error
SendMessage(user_message, outcome) ==
    /\ Len(ai.history) < MaxHistory
    /\ ai' = send_message(ai, user_message, outcome)
    /\ AssistantCall("send_message", user_message, outcome)

\* pages/4_AI.py lines 100-102: the Clear Chat button
ClearHistory ==
    /\ ai' = Cleared(ai)
    /\ AssistantCall("clear_history", "", "")

NextAI ==
    \/ \E d \in DomainInputs : Construct(d)
    \/ \E d \in DomainInputs : SetDomain(d)
    \/ \E prompt \in PromptInputs : SetSystemPrompt(prompt)
    \/ \E m \in MessageInputs, o \in ApiOutcomes : SendMessage(m, o)
    \/ ClearHistory

SpecAI == Init /\ [][NextAI]_vars

(***************************************************************************)
(* Vocabulary of the properties                                            *)
(***************************************************************************)
\* some stored Account has this username
HasAccount(u) ==
    \E i \in 1..Len(user_file) : SavedUsers(user_file)[i] = u

\* register(u, p, ...) wrote a line of users.txt
RegisteredWith(u, p) ==
    \E i \in 1..Len(user_file), s \in Salts, r \in Roles :
        user_file[i] = UserLine(u, hashpw(p, s), r)

\* the tracker holds u locked: 3 or more failures, the last one less than
\* 300 seconds ago
Locked(u) ==
    /\ u \in DOMAIN attempt_file
    /\ attempt_file[u][1] >= 3
    /\ now - attempt_file[u][2] < 300

\* the times of the wrong-password logins of u since its last success,
\* among its last three logins that were not rejected
FailTimes(u) ==
    LET h == history[u]
        first == CHOOSE i \in 1..(Len(h) + 1) :
                     /\ \A j \in i..Len(h) : h[j][1] = "bad"
                     /\ \A k \in 1..(i - 1) :
                            \E j \in k..Len(h) : h[j][1] # "bad"
    IN [i \in 1..(Len(h) - first + 1) |-> h[first + i - 1][2]]

\* the last three logins of u that were not rejected were wrong-password
\* logins with no success between them
ThreeFailures(u) == Len(FailTimes(u)) = 3

\* ... and each of them came less than 300 seconds after the one before
ThreeFailuresInWindow(u) ==
    /\ ThreeFailures(u)
    /\ FailTimes(u)[2] - FailTimes(u)[1] < 300
    /\ FailTimes(u)[3] - FailTimes(u)[2] < 300

\* this step is the login of u with password p
LoginStep(u, p) ==
    /\ ret'.op = "login" /\ ret'.user = u /\ ret'.pwd = p
    /\ \E k \in Tokens : Login(u, p, k)

\* this step is the call register(u, p, r)
RegisterStep(u, p, r) ==
    /\ ret'.op = "register" /\ ret'.user = u /\ ret'.pwd = p
    /\ ret'.role = r
    /\ Register(u, p, r)

(***************************************************************************)
(* C1 as stated: after 3 consecutive wrong-password logins for a username, *)
(* every login for it less than 300 seconds after the third is rejected,   *)
(* whatever the password.                                                  *)
(***************************************************************************)
C1_AsStated ==
    [][\A u \in Usernames, p \in Passwords :
          (LoginStep(u, p) /\ ThreeFailures(u)
              /\ now - FailTimes(u)[3] < 300)
          => (ret'.val = "False" /\ ret'.why = "locked")]_vars

(***************************************************************************)
(* C1 amended: after 3 consecutive wrong-password logins for a username,   *)
(* each less than 300 seconds after the one before, every login for it     *)
(* less than 300 seconds after the third is rejected, even with the        *)
(* correct password.                                                       *)
(***************************************************************************)
C1_Lockout ==
    [][\A u \in Usernames, p \in Passwords :
          (LoginStep(u, p) /\ ThreeFailuresInWindow(u)
              /\ now - FailTimes(u)[3] < 300)
          => (ret'.val = "False" /\ ret'.why = "locked")]_vars

\* a login with the stored password, 299 seconds after the third failure,
\* was rejected as locked
C1_Witness ==
    /\ ret.op = "login" /\ ret.why = "locked" /\ ret.val = "False"
    /\ RegisteredWith(ret.user, ret.pwd)
    /\ ThreeFailuresInWindow(ret.user)
    /\ now - FailTimes(ret.user)[3] = 299

(***************************************************************************)
(* C2: a login made 300 seconds or more after the username's last recorded *)
(* failure is evaluated with the count reset to 0: the stored password     *)
(* succeeds, a wrong password leaves the count at exactly 1.               *)
(***************************************************************************)
C2_WindowExpiry ==
    [][\A u \in Usernames, p \in Passwords :
          (LoginStep(u, p) /\ FailTimes(u) # <<>>
              /\ now - FailTimes(u)[Len(FailTimes(u))] >= 300)
          => IF RegisteredWith(u, p)
             THEN ret'.val = "True" /\ attempt_file'[u][1] = 0
             ELSE ret'.val = "False" /\ attempt_file'[u] = <<1, now>>]_vars

\* a locked username, exactly 300 seconds after its third failure, got a
\* wrong password again and its count is 1
C2_Witness ==
    /\ ret.op = "login" /\ ret.why = "bad_password"
    /\ ThreeFailures(ret.user)
    /\ FailTimes(ret.user)[1] = FailTimes(ret.user)[2]
    /\ FailTimes(ret.user)[3] - FailTimes(ret.user)[2] = 300
    /\ attempt_file[ret.user] = <<1, now>>

(***************************************************************************)
(* C3: a successful login leaves the failure count at 0, the count never   *)
(* exceeds the number of wrong-password logins since the last success, and *)
(* a username is locked only if its 3 most recent logins that were not     *)
(* rejected were all failures.                                             *)
(***************************************************************************)
C3_SuccessResets ==
    /\ (ret.op = "login" /\ ret.val = "True")
          => TriesOf(attempt_file, ret.user) = 0
    /\ \A u \in Usernames :
          /\ TriesOf(attempt_file, u) <= Len(FailTimes(u))
          /\ Locked(u) => ThreeFailures(u)

\* a failure, then a success, then one more failure: the count is 1
C3_Witness ==
    \E u \in Usernames :
        /\ Len(history[u]) = 3
        /\ history[u][1][1] = "bad"
        /\ history[u][2][1] = "ok"
        /\ history[u][3][1] = "bad"
        /\ history[u][3][2] - history[u][1][2] < 300
        /\ attempt_file[u][1] = 1

(***************************************************************************)
(* C4: a login rejected because the username is locked changes no stored   *)
(* state: the failure records (of this and every other username), the      *)
(* credential store and the session store stay as they were.               *)
(***************************************************************************)
C4_LockedRejectionFrame ==
    [][\A u \in Usernames, p \in Passwords :
          (LoginStep(u, p) /\ (Locked(u) \/ ret'.why = "locked"))
          => /\ ret'.val = "False"
             /\ attempt_file' = attempt_file
             /\ user_file' = user_file
             /\ sess_file' = sess_file]_vars

\* a rejection 299 seconds after the last failure, with another username's
\* record and a session in the stores; the window still counts from the
\* failure
C4_Witness ==
    /\ ret.op = "login" /\ ret.why = "locked"
    /\ now - attempt_file[ret.user][2] = 299
    /\ \E v \in DOMAIN attempt_file : v # ret.user /\ attempt_file[v][1] > 0
    /\ sess_file # <<>>

(***************************************************************************)
(* C5: register fails and changes nothing when the store already holds an  *)
(* Account with the username; otherwise it adds exactly one Account, with  *)
(* that username and the given role, and leaves the others unchanged.      *)
(***************************************************************************)
C5_RegisterEffect ==
    [][\A u \in Usernames, p \in Passwords, r \in Roles :
          RegisterStep(u, p, r)
          => IF HasAccount(u)
             THEN ret'.val = "False" /\ user_file' = user_file
             ELSE /\ ret'.val = "True"
                  /\ Len(user_file') = Len(user_file) + 1
                  /\ SubSeq(user_file', 1, Len(user_file)) = user_file
                  /\ SavedUsers(user_file')[Len(user_file')] = u
                  /\ Split(read_lines(user_file')[Len(user_file')])[3]
                        = <<r>>]_vars

(***************************************************************************)
(* C6: no two Accounts of the credential store have the same username.     *)
(***************************************************************************)
C6_UniqueUsernames ==
    \A i, j \in 1..Len(user_file) :
        i # j => SavedUsers(user_file)[i] # SavedUsers(user_file)[j]

(***************************************************************************)
(* C7: register stores an Account only if the username and the password    *)
(* both pass validation; otherwise it fails and the store is unchanged.    *)
(***************************************************************************)
C7_RegisterValidates ==
    [][\A u \in Usernames, p \in Passwords, r \in Roles :
          (RegisterStep(u, p, r) /\ ~(username_ok(u)[1] /\ password_ok(p)[1]))
          => (ret'.val = "False" /\ user_file' = user_file)]_vars

(***************************************************************************)
(* C8: after register(u, p) succeeded and while u is not locked,           *)
(* login(u, p) succeeds and login(u, q) fails for every q other than p.    *)
(***************************************************************************)
C8_RoundTrip ==
    [][\A u \in Usernames, p, q \in Passwords :
          (LoginStep(u, q) /\ RegisteredWith(u, p) /\ ~Locked(u))
          => (ret'.val = "True" <=> q = p)]_vars

(***************************************************************************)
(* C9: two register calls for the same username running at once leave      *)
(* exactly one Account with that username, and at most one returns True.   *)
(***************************************************************************)
C9_RaceOneAccount ==
    \A p, q \in Procs :
        (p # q /\ proc[p].pc = "done" /\ proc[q].pc = "done"
            /\ proc[p].user = proc[q].user)
        => /\ Cardinality({i \in 1..Len(user_file) :
                  SavedUsers(user_file)[i] = proc[p].user}) = 1
           /\ ~(proc[p].val = "True" /\ proc[q].val = "True")

(***************************************************************************)
(* C10: a login for a username that has no Account returns False and       *)
(* leaves the failure records as they were, and no username without an     *)
(* Account ever has a failure record, so it is never locked.               *)
(***************************************************************************)
C10_RecordsHaveAccounts ==
    \A u \in DOMAIN attempt_file : HasAccount(u)

C10_UnknownUser ==
    /\ []C10_RecordsHaveAccounts
    /\ [][\A u \in Usernames, p \in Passwords :
             (LoginStep(u, p) /\ ~HasAccount(u))
             => (ret'.val = "False" /\ attempt_file' = attempt_file)]_vars

\* a login for a username without an Account failed while another username
\* has failures on record
C10_Witness ==
    /\ ret.op = "login" /\ ret.why = "not_found" /\ ret.val = "False"
    /\ ~HasAccount(ret.user)
    /\ ret.user \notin DOMAIN attempt_file
    /\ \E v \in DOMAIN attempt_file : attempt_file[v][1] > 0

(***************************************************************************)
(* C11: password verification fails closed: a login against an Account     *)
(* whose stored hash is malformed returns an ordinary result (True or      *)
(* False), it never ends in an exception.                                  *)
(***************************************************************************)
C11_FailsClosed ==
    ret.op = "login" => ret.val \in {"True", "False"}

(***************************************************************************)
(* C12: a Session is issued only for an authenticated Account: every       *)
(* session record's username has an Account, and the session store changes *)
(* only by the append that follows a login of that username which returned *)
(* True with the stored password; a failed or locked login issues none.    *)
(***************************************************************************)
C12_SessionUsersHaveAccounts ==
    \A i \in 1..Len(sess_file) : HasAccount(sess_file[i][1])

C12_SessionsAuthenticated ==
    /\ []C12_SessionUsersHaveAccounts
    /\ [][sess_file' # sess_file
             => /\ ret'.op = "login" /\ ret'.val = "True"
                /\ RegisteredWith(ret'.user, ret'.pwd)
                /\ ~Locked(ret'.user)
                /\ \E k \in Tokens :
                      sess_file' = Append(sess_file, <<ret'.user, k, now>>)]_vars

\* a username that holds a session was later rejected as locked, and no
\* second session was issued
C12_Witness ==
    /\ ret.op = "login" /\ ret.why = "locked"
    /\ Len(sess_file) = 1
    /\ sess_file[1][1] = ret.user
    /\ RegisteredWith(ret.user, ret.pwd)

(***************************************************************************)
(* C13: issuing a session records what it returns: after every call the    *)
(* session store holds a record (username, token, issue time) whose token  *)
(* is the token returned to the caller.                                    *)
(***************************************************************************)
C13_IssueRecords ==
    [][\A u \in {Alice, Bob}, k \in Tokens :
          (/\ ret'.op \in {"new_session", "create_session"}
           /\ ret'.user = u /\ ret'.val = k
           /\ (NewSession(u, k) \/ CreateSession(u, k)))
          => /\ issued' = k
             /\ \E i \in 1..Len(sess_file') :
                   sess_file'[i] = <<u, k, now>>]_vars

(***************************************************************************)
(* C14: username validation succeeds exactly when the name has 3 to 20     *)
(* characters, all of them in [A-Za-z0-9_] (a name with whitespace, a      *)
(* trailing newline included, is rejected); on failure the reason is that  *)
(* of the first violated check in the order empty, length, whitespace,     *)
(* character set.                                                          *)
(***************************************************************************)
C14_ValidateUsername ==
    ret.op \in {"username_ok", "validate_username"}
    => LET name == ret.user
           valid == /\ 3 <= Len(name) /\ Len(name) <= 20
                    /\ \A i \in 1..Len(name) : name[i] \in WordChars
           reason == IF name = <<>> THEN "empty"
                     ELSE IF ~(3 <= Len(name) /\ Len(name) <= 20)
                     THEN "length"
                     ELSE IF HasAny(name, Whitespace) THEN "spaces"
                     ELSE "charset"
       IN /\ ret.val = "True" <=> valid
          /\ ret.val = "False" => ret.why = reason

(***************************************************************************)
(* C15: password validation succeeds exactly when the password has at      *)
(* least 6 characters (and at most 50 in week7) and holds an uppercase     *)
(* letter, a lowercase letter, a digit and a listed symbol; otherwise the  *)
(* reason is that of the first failing check in the order length,          *)
(* uppercase, lowercase, digit, symbol.                                    *)
(***************************************************************************)
C15_ValidatePassword ==
    ret.op \in {"password_ok", "validate_password"}
    => LET pw == ret.pwd
           checks == << <<"length", /\ Len(pw) >= 6
                                   /\ (ret.op = "password_ok"
                                          => Len(pw) <= 50)>>,
                        <<"uppercase", \E i \in 1..Len(pw) : pw[i] \in Upper>>,
                        <<"lowercase", \E i \in 1..Len(pw) : pw[i] \in Lower>>,
                        <<"number", \E i \in 1..Len(pw) : pw[i] \in Digit>>,
                        <<"special",
                          \E i \in 1..Len(pw) : pw[i] \in Special>> >>
       IN /\ ret.val = "True" <=> \A i \in 1..5 : checks[i][2]
          /\ ret.val = "False"
                => \E i \in 1..5 : /\ ret.why = checks[i][1]
                                   /\ ~checks[i][2]
                                   /\ \A j \in 1..(i - 1) : checks[j][2]

\* "abc123" was rejected by week7 password_ok for its missing uppercase
\* letter
C15_Witness ==
    /\ ret.op = "password_ok"
    /\ ret.pwd = <<"a", "b", "c", "1", "2", "3">>
    /\ ret.val = "False" /\ ret.why = "uppercase"

(***************************************************************************)
(* C16: the strength rating depends only on the score, the number of       *)
(* criteria met among length >= 8, uppercase, lowercase, digit, symbol:    *)
(* score 0..2 is Weak, 3..4 is Medium, 5 is Strong.                        *)
(***************************************************************************)
C16_StrengthByScore ==
    ret.op \in {"strength", "check_password_strength"}
    => LET pw == ret.pwd
           met == {c \in {"len8", "upper", "lower", "digit", "symbol"} :
                     \/ c = "len8" /\ Len(pw) >= 8
                     \/ c = "upper" /\ \E i \in 1..Len(pw) : pw[i] \in Upper
                     \/ c = "lower" /\ \E i \in 1..Len(pw) : pw[i] \in Lower
                     \/ c = "digit" /\ \E i \in 1..Len(pw) : pw[i] \in Digit
                     \/ c = "symbol"
                          /\ \E i \in 1..Len(pw) : pw[i] \in Special}
       IN /\ Cardinality(met) \in 0..2 => ret.val = "Weak"
          /\ Cardinality(met) \in 3..4 => ret.val = "Medium"
          /\ Cardinality(met) = 5 => ret.val = "Strong"

\* "password" meets two criteria (length, lowercase) and week7 rates it Weak
C16_Witness ==
    /\ ret.op = "strength"
    /\ ret.pwd = <<"p", "a", "s", "s", "w", "o", "r", "d">>
    /\ ret.val = "Weak"

(***************************************************************************)
(* C17: every Account of the Credential Store, file-backed or              *)
(* table-backed, has a role in the enum {user, analyst, admin}.            *)
(***************************************************************************)
C17_RolesInEnum ==
    /\ \A i \in 1..Len(users_table) :
          users_table[i][3] \in {"user", "analyst", "admin"}
    /\ \A i \in 1..Len(user_file) :
          \E r \in {"user", "analyst", "admin"} :
             Split(read_lines(user_file)[i])[3] = <<r>>

(***************************************************************************)
(* C18: sessions are append-only: no operation removes or modifies a       *)
(* session record, so the session store of every state is a prefix of the  *)
(* session store of the next.                                              *)
(***************************************************************************)
C18_SessionsAppendOnly ==
    [][/\ Len(sess_file) <= Len(sess_file')
       /\ SubSeq(sess_file', 1, Len(sess_file)) = sess_file]_vars

\* two sessions of different users are on record, in the order issued, and
\* a later login that failed left them there
C18_Witness ==
    /\ Len(sess_file) = 2
    /\ sess_file[1][1] # sess_file[2][1]
    /\ sess_file[1][3] < sess_file[2][3]
    /\ ret.op = "login" /\ ret.val = "False"
    /\ now > sess_file[2][3]

(***************************************************************************)
(* C19: the table-backed login has no lockout and no side effect: it       *)
(* returns a User exactly when the users table holds the username with a   *)
(* hash of the supplied password, whatever logins came before, and it      *)
(* writes nothing.                                                         *)
(***************************************************************************)
C19_TableLoginPure ==
    [][\A u \in {Alice, Bob}, p \in Passwords :
          (/\ ret'.op = "login_user" /\ ret'.user = u /\ ret'.pwd = p
           /\ TableLogin(u, p))
          => /\ ret'.val = "User"
                   <=> \E i \in 1..Len(users_table), sl \in Salts :
                          /\ users_table[i][1] = u
                          /\ users_table[i][2] = hashpw(p, sl)
             /\ users_table' = users_table
             /\ session_state' = session_state
             /\ user_file' = user_file
             /\ attempt_file' = attempt_file
             /\ sess_file' = sess_file]_vars

\* three failed logins in a row, then the stored password: a User is
\* returned at once
C19_Witness ==
    /\ ret.op = "login_user" /\ ret.val = "User"
    /\ Len(history[ret.user]) = 4
    /\ \A i \in 1..3 : history[ret.user][i][1] = "bad"
    /\ history[ret.user][4][1] = "ok"

(***************************************************************************)
(* C20 as stated: the week7 and the week10/11 strength mappings differ on  *)
(* at least one score in 0..5.                                             *)
(***************************************************************************)
C20_AsStated ==
    ret.op \in {"strength", "check_password_strength"}
    => \E score \in 0..5 : RateWeek7(score) # RateWeek10(score)

(***************************************************************************)
(* C20 amended: the week7 and the week10/11 strength mappings agree: every *)
(* score in 0..5, hence every password, gets the same rating from both.    *)
(***************************************************************************)
C20_SameRating ==
    /\ \A score \in 0..5 : RateWeek7(score) = RateWeek10(score)
    /\ ret.op = "strength" => ret.val = check_password_strength(ret.pwd)
    /\ ret.op = "check_password_strength" => ret.val = strength(ret.pwd)

\* a password of score 4, the boundary of the two conditions, was rated
\* by week10/11
C20_Witness ==
    /\ ret.op = "check_password_strength"
    /\ Score(ret.pwd) = 4
    /\ ret.val = "Medium"

\* this step is process p leaving the password check of user_login with a
\* wrong password for a registered username
WrongPasswordStep(p) ==
    /\ proc[p].pc = "verify"
    /\ proc'[p].pc = "done"
    /\ proc'[p].val = "False"
    /\ HasAccount(proc[p].user)

\* this step is a write of process p's user_login call to the attempts file
StoreStep(p) ==
    /\ proc[p].pc \in {"gate", "verify"}
    /\ proc'[p] # proc[p]

(***************************************************************************)
(* C21: with user_login calls for one username running at once, every      *)
(* wrong-password verification adds one to the failure count stored for    *)
(* that username: no increment is lost, so no more than MAX_TRIES wrong     *)
(* passwords are verified before the username is locked.                   *)
(***************************************************************************)
C21_NoLostIncrement ==
    [][\A p \in Procs :
          WrongPasswordStep(p)
          => TriesOf(attempt_file', proc[p].user)
                = TriesOf(attempt_file, proc[p].user) + 1]_vars

(***************************************************************************)
(* C22: a user_login call for one username leaves the failure record of    *)
(* every other username as it is in the file, under every interleaving of  *)
(* the calls.                                                              *)
(***************************************************************************)
C22_OtherRecordsKept ==
    [][\A p \in Procs :
          StoreStep(p)
          => \A b \in {Alice, Bob} \ {proc[p].user} :
                /\ b \in DOMAIN attempt_file' <=> b \in DOMAIN attempt_file
                /\ b \in DOMAIN attempt_file
                   => attempt_file'[b] = attempt_file[b]]_vars

(***************************************************************************)
(* C23: every failure count stored in the attempts file is between 0 and   *)
(* MAX_TRIES, whatever the order and the interleaving of the logins.       *)
(***************************************************************************)
C23_CountInRange ==
    \A u \in DOMAIN attempt_file :
        attempt_file[u][1] \in 0..MAX_TRIES

\* the count of Alice is at MAX_TRIES while another call for Alice, which
\* loaded the file when the count was one less, is about to check a password
C23_Witness ==
    /\ TriesOf(attempt_file, Alice) = MAX_TRIES
    /\ \E p \in Procs :
          /\ proc[p].pc = "verify"
          /\ proc[p].user = Alice
          /\ TriesOf(proc[p].snap, Alice) = MAX_TRIES - 1

(***************************************************************************)
(* C24: a lockout ends by time alone.  For a username whose record holds    *)
(* MAX_TRIES failures, the time of the record is the time of its last      *)
(* failure; a login with the stored password succeeds exactly when it is    *)
(* made LOCK_TIME seconds or more after that failure, and a login rejected  *)
(* before then leaves the record, and so the end of the lock, unchanged.    *)
(***************************************************************************)
C24_LockEnds ==
    [][\A u \in Usernames, p \in Passwords :
          (LoginStep(u, p) /\ TriesOf(attempt_file, u) >= MAX_TRIES
              /\ RegisteredWith(u, p))
          => /\ ThreeFailures(u)
             /\ attempt_file[u][2] = FailTimes(u)[3]
             /\ ret'.val = "True" <=> now - attempt_file[u][2] >= LOCK_TIME
             /\ ret'.val # "True" => attempt_file'[u] = attempt_file[u]]_vars

\* three failures at one instant, a login rejected during the lock, and
\* LOCK_TIME seconds after the third failure the username is no longer
\* locked although its record still holds the three failures
C24_Witness ==
    /\ ret.op = "login" /\ ret.why = "locked"
    /\ ThreeFailuresInWindow(ret.user)
    /\ attempt_file[ret.user] = <<MAX_TRIES, FailTimes(ret.user)[3]>>
    /\ now - FailTimes(ret.user)[3] = LOCK_TIME
    /\ ~Locked(ret.user)

\* this step writes the first failure record of u
RecordCreated(u) ==
    /\ u \notin DOMAIN attempt_file
    /\ u \in DOMAIN attempt_file'

(***************************************************************************)
(* C25, as stated: every username with a failure record has an Account,    *)
(* and a record exists only if the username had a failed login: the step   *)
(* that writes the first record of a username is a wrong-password login    *)
(* of that username.                                                       *)
(***************************************************************************)
C25_AsStated ==
    [][\A u \in Usernames :
          RecordCreated(u)
          => /\ HasAccount(u)
             /\ ret'.op = "login" /\ ret'.user = u
             /\ ret'.why = "bad_password"]_vars

(***************************************************************************)
(* C25, amended: every username with a failure record has an Account and   *)
(* had at least one login that reached the password check, with a wrong    *)
(* password or with the stored one; a record with a count above 0 is left   *)
(* by a wrong-password login only.                                         *)
(***************************************************************************)
C25_RecordsFromChecks ==
    /\ \A u \in DOMAIN attempt_file :
          /\ HasAccount(u)
          /\ u \in DOMAIN history
          /\ history[u] # <<>>
          /\ attempt_file[u][1] > 0
             => history[u][Len(history[u])][1] = "bad"
    /\ \A u \in Usernames :
          history[u] # <<>> => u \in DOMAIN attempt_file

\* a username whose only login so far was a successful one has a record,
\* with count 0
C25_Witness ==
    \E u \in Usernames :
        /\ Len(history[u]) = 1
        /\ history[u][1][1] = "ok"
        /\ u \in DOMAIN attempt_file
        /\ attempt_file[u] = <<0, 0>>

(***************************************************************************)
(* C26: the menu reports "Registration successful!" only when register     *)
(* stored an Account: never for a username that was already registered,    *)
(* for which register returns False and writes nothing.                    *)
(***************************************************************************)
C26_SuccessMeansStored ==
    [][\A u \in Usernames :
          (ret'.op = "menu_register" /\ ret'.why = "success"
              /\ ret'.user = u
              /\ \E p \in Passwords, r \in Roles :
                    MenuRegister(u, p, p, r))
          => /\ ~HasAccount(u)
             /\ ret'.val = "True"
             /\ Len(user_file') = Len(user_file) + 1]_vars

\* this step is the login form submitted with username u and password p
FormLoginStep(u, p) ==
    /\ ret'.op = "form_login" /\ ret'.user = u /\ ret'.pwd = p
    /\ FormLogin(u, p)

\* the four keys of the session state agree: all unset when logged out, and
\* when logged in the User of a row of the users table with its username
\* and role
SessionStateCoherent ==
    /\ session_state.logged_in
       <=> /\ session_state.username # <<>>
           /\ session_state.role # "None"
           /\ session_state.current_user # <<>>
    /\ ~session_state.logged_in => session_state = LoggedOut
    /\ session_state.logged_in
       => /\ \E i \in 1..Len(users_table) :
                users_table[i] = session_state.current_user
          /\ session_state.username = session_state.current_user[1]
          /\ session_state.role = session_state.current_user[3]

\* a login form step sets the four keys from the Account it authenticated
\* and changes none of them when it fails; Logout resets all four
SessionStateSteps ==
    /\ \A u \in {Alice, Bob}, p \in Passwords :
          FormLoginStep(u, p)
          => IF ret'.val = "User"
             THEN /\ session_state'.logged_in
                  /\ session_state'.username = u
                  /\ session_state'.current_user
                        = users_table[FetchOne(users_table, u)]
                  /\ verify_password(p, session_state'.current_user[2])
             ELSE session_state' = session_state
    /\ (ret'.op = "logout" /\ Logout) => session_state' = LoggedOut
    /\ (session_state' # session_state)
          => ret'.op \in {"form_login", "logout"}

(***************************************************************************)
(* C27: in the week11 Home session state, logged_in is true exactly when   *)
(* username, role and current_user are all set, and they are those of the  *)
(* Account of the most recent successful login_user; a failed login        *)
(* changes none of the four, logout resets all four, and a dashboard page  *)
(* renders only while logged_in is true.                                   *)
(***************************************************************************)
C27_SessionState ==
    /\ []SessionStateCoherent
    /\ [][SessionStateSteps]_vars
    /\ []((ret.op = "open_page" /\ ret.val = "rendered")
             => session_state.logged_in)

(***************************************************************************)
(* C28: a password the validator of its iteration accepts (validate_       *)
(* password for check_password_strength, password_ok for week7 strength)   *)
(* is never rated Weak: it is rated Strong when it has 8 characters or     *)
(* more and Medium when it has fewer.                                      *)
(***************************************************************************)
C28_AcceptedNotWeak ==
    /\ (ret.op = "check_password_strength" /\ validate_password(ret.pwd)[1])
          => /\ ret.val # "Weak"
             /\ ret.val = "Strong" <=> Len(ret.pwd) >= 8
             /\ ret.val = "Medium" <=> Len(ret.pwd) < 8
    /\ (ret.op = "strength" /\ password_ok(ret.pwd)[1])
          => /\ ret.val # "Weak"
             /\ ret.val = "Strong" <=> Len(ret.pwd) >= 8
             /\ ret.val = "Medium" <=> Len(ret.pwd) < 8

\* an accepted password of exactly 8 characters was rated Strong by
\* check_password_strength
C28_Witness ==
    /\ ret.op = "check_password_strength"
    /\ validate_password(ret.pwd)[1]
    /\ Len(ret.pwd) = 8
    /\ ret.val = "Strong"

\* the full history starts with the system message of the current prompt
HistoryHead ==
    /\ Len(ai.history) >= 1
    /\ ai.history[1] = Message("system", ai.system_prompt)

\* what clear_history, set_system_prompt and set_domain leave
ResetSteps ==
    /\ (ret'.op = "clear_history" /\ ClearHistory)
          => /\ ai'.history = <<Message("system", ai.system_prompt)>>
             /\ ai'.system_prompt = ai.system_prompt
             /\ ai'.domain = ai.domain
    /\ \A prompt \in PromptInputs :
          (ret'.op = "set_system_prompt" /\ SetSystemPrompt(prompt))
          => /\ ai'.history = <<Message("system", prompt)>>
             /\ ai'.system_prompt = prompt
    /\ \A d \in DomainInputs :
          (ret'.op = "set_domain" /\ SetDomain(d))
          => IF d \in DOMAIN DOMAIN_PROMPTS
             THEN /\ ai'.domain = d
                  /\ ai'.system_prompt = DOMAIN_PROMPTS[d]
                  /\ ai'.history = <<Message("system", DOMAIN_PROMPTS[d])>>
             ELSE ai' = ai

(***************************************************************************)
(* C29: the full history of an AIAssistant is never empty and its first    *)
(* entry is the system message whose content is the current system prompt; *)
(* clear_history, set_system_prompt and set_domain with a known domain     *)
(* leave exactly that one entry, and set_domain with an unknown domain     *)
(* changes nothing.                                                        *)
(***************************************************************************)
C29_HistoryHead ==
    /\ []HistoryHead
    /\ [][ResetSteps]_vars

\* with a custom system prompt and one exchange in the history, set_domain
\* was called with an unknown domain: prompt and history are still there
C29_Witness ==
    /\ ret.op = "set_domain" /\ ret.why \notin DOMAIN DOMAIN_PROMPTS
    /\ ai.system_prompt \in PromptInputs
    /\ Len(ai.history) = 3
    /\ HistoryHead

\* after the system message the entries alternate user, assistant and end
\* with an assistant reply
Alternates(h) ==
    /\ Len(h) % 2 = 1
    /\ \A i \in 2..Len(h) :
          h[i].role = IF i % 2 = 0 THEN "user" ELSE "assistant"

(***************************************************************************)
(* C30: after any sequence of send_message and clear_history calls, those  *)
(* whose API request raises included, the history after the system message *)
(* alternates user, assistant, user, assistant; a send_message that fails  *)
(* leaves the history as it was.                                           *)
(***************************************************************************)
C30_Alternation ==
    /\ []Alternates(ai.history)
    /\ [][\A m \in MessageInputs :
             (ret'.op = "send_message" /\ ret'.val = "raise"
                 /\ SendMessage(m, "raise"))
             => ai'.history = ai.history]_vars

====
